---- MODULE Spec2Model ----
(***************************************************************************)
(* Attack Graph Automation Engine of sheetstorm                            *)
(* (backend/app/services/graph_automation_service.py) together with the    *)
(* two request handlers that call it (auto_generate_attack_graph and       *)
(* create_timeline_event) and the handler that adds a node by hand         *)
(* (create_graph_node).                                                    *)
(*                                                                         *)
(* Texts are sequences of one-character strings so that lower(), strip(),  *)
(* replace() and substring tests are computed, not assumed.  Python None   *)
(* is NoneText for text columns, NoId for foreign keys and NoTime for      *)
(* timestamps.  Columns that are copied into extra_data / label and are    *)
(* never read again by the service (protocol, sha256, created_by, ...)     *)
(* are not carried.                                                        *)
(***************************************************************************)
EXTENDS Integers, Sequences, FiniteSets, TLC

VARIABLES
    hosts,              \* CompromisedHost rows
    accounts,           \* CompromisedAccount rows
    malware,            \* MalwareTool rows
    host_indicators,    \* HostBasedIndicator rows
    network_indicators, \* NetworkIndicator rows
    events,             \* TimelineEvent rows
    nodes,              \* committed AttackGraphNode rows
    edges,              \* committed AttackGraphEdge rows
    nextId,             \* source of fresh primary keys (uuid4)
    calls,              \* number of calls made so far
    last,               \* what the last call was and how it ended
    pc,                 \* position of each concurrent request
    loc                 \* session-local state of each concurrent request

vars == <<hosts, accounts, malware, host_indicators, network_indicators,
          events, nodes, edges, nextId, calls, last, pc, loc>>

sourceVars == <<hosts, accounts, malware, host_indicators, network_indicators>>

(***************************************************************************)
(* Bounds                                                                  *)
(***************************************************************************)
MaxCalls == 2
MaxRows == 3

(***************************************************************************)
(* Python str operations                                                   *)
(***************************************************************************)
NoneText == <<"None">>
NoId == 0
NoTime == 0

UpperChars == <<"A","B","C","D","E","F","G","H","I","J","K","L","M",
                "N","O","P","Q","R","S","T","U","V","W","X","Y","Z">>
LowerChars == <<"a","b","c","d","e","f","g","h","i","j","k","l","m",
                "n","o","p","q","r","s","t","u","v","w","x","y","z">>
DigitChars == {"0","1","2","3","4","5","6","7","8","9"}
SpaceChars == {" ", "\t", "\n"}

LowerChar(c) ==
    IF \E i \in 1..26 : UpperChars[i] = c
    THEN LowerChars[CHOOSE i \in 1..26 : UpperChars[i] = c]
    ELSE c

StrLower(s) == [i \in 1..Len(s) |-> LowerChar(s[i])]

StrStrip(s) ==
    LET keep == {i \in 1..Len(s) : s[i] \notin SpaceChars}
    IN IF keep = {} THEN <<>>
       ELSE LET lo == CHOOSE i \in keep : \A j \in keep : i <= j
                hi == CHOOSE i \in keep : \A j \in keep : j <= i
            IN SubSeq(s, lo, hi)

StrRemoveDots(s) == SelectSeq(s, LAMBDA c : c # ".")

StrIsDigit(s) == Len(s) > 0 /\ \A i \in 1..Len(s) : s[i] \in DigitChars

StrContains(s, sub) ==
    \E i \in 0..(Len(s) - Len(sub)) : SubSeq(s, i + 1, i + Len(sub)) = sub

Truthy(s) == s # NoneText /\ s # <<>>

(***************************************************************************)
(* Text literals used by the source rows                                   *)
(***************************************************************************)
T_WS1 == <<"W","S","1">>
T_ws1_pad == <<" ","w","s","1"," ">>
T_dc01 == <<"d","c","0","1">>
T_DC01 == <<"D","C","0","1">>
T_fs9 == <<"f","s","9">>
T_ip1 == <<"1","0",".","0",".","0",".","1">>
T_ip2 == <<"1","0",".","0",".","0",".","2">>
T_ip3 == <<"1","0",".","0",".","0",".","3">>
T_nohost == <<"z","z">>
T_evil == <<"e","v","i","l",".","c","o","m">>
T_bad == <<"b","a","d",".","n","e","t">>
T_Workstation == <<"W","o","r","k","s","t","a","t","i","o","n">>
T_DC == <<"A","D"," ","D","C">>
T_FileServer == <<"F","i","l","e"," ","S","e","r","v","e","r">>
T_domain_controller == <<"d","o","m","a","i","n","_","c","o","n","t","r","o","l","l","e","r">>
T_server == <<"s","e","r","v","e","r">>
T_dc == <<"d","c">>

(***************************************************************************)
(* Source rows the Entity Store may hold.  Foreign keys of items are       *)
(* validated against the incident by the CRUD endpoints, so a row with a   *)
(* host_id is only present together with its host.                         *)
(***************************************************************************)
Incidents == {1, 2}

H1 == [id |-> 1, incident_id |-> 1, hostname |-> T_WS1, ip_address |-> T_ip1,
       system_type |-> T_Workstation, first_seen |-> NoTime]
H2 == [id |-> 2, incident_id |-> 1, hostname |-> T_dc01, ip_address |-> NoneText,
       system_type |-> T_DC, first_seen |-> 1]
H3 == [id |-> 3, incident_id |-> 2, hostname |-> T_fs9, ip_address |-> T_ip3,
       system_type |-> T_FileServer, first_seen |-> 1]
H4 == [id |-> 4, incident_id |-> 1, hostname |-> T_fs9, ip_address |-> T_ip2,
       system_type |-> NoneText, first_seen |-> 1]

HostConfigs == { {H3}, {H1, H3}, {H1, H2, H3}, {H1, H2, H4} }

AccountUniverse ==
    { [id |-> 11, incident_id |-> 1, host_id |-> 1, host_text |-> NoneText],
      [id |-> 12, incident_id |-> 1, host_id |-> NoId, host_text |-> T_ws1_pad],
      [id |-> 13, incident_id |-> 1, host_id |-> NoId, host_text |-> T_nohost] }

MalwareUniverse ==
    { [id |-> 21, incident_id |-> 1, host_id |-> 2, host_text |-> NoneText],
      [id |-> 22, incident_id |-> 1, host_id |-> NoId, host_text |-> T_ip1] }

HostIndicatorUniverse ==
    { [id |-> 31, incident_id |-> 1, host_id |-> NoId, host_text |-> T_DC01],
      [id |-> 32, incident_id |-> 2, host_id |-> 3, host_text |-> NoneText] }

NetworkIndicatorUniverse ==
    { [id |-> 41, incident_id |-> 1, host_id |-> 1, host_text |-> NoneText, dns_ip |-> T_evil],
      [id |-> 42, incident_id |-> 1, host_id |-> 2, host_text |-> NoneText, dns_ip |-> T_evil],
      [id |-> 43, incident_id |-> 1, host_id |-> NoId, host_text |-> T_WS1, dns_ip |-> T_evil],
      [id |-> 44, incident_id |-> 1, host_id |-> NoId, host_text |-> T_nohost, dns_ip |-> T_bad],
      [id |-> 45, incident_id |-> 1, host_id |-> 1, host_text |-> NoneText, dns_ip |-> T_bad] }

Tactics == {"None", "initial-access", "impact", "lateral-movement", "discovery"}

Ev(i, inc, ts, hid, tac, src) ==
    [id |-> i, incident_id |-> inc, timestamp |-> ts, host_id |-> hid,
     mitre_tactic |-> tac, source |-> src]

EventUniverse ==
    { Ev(51, 1, 1, 1, "initial-access", NoneText),
      Ev(52, 1, 2, 2, "lateral-movement", T_WS1),
      Ev(53, 1, 3, 1, "discovery", NoneText),
      Ev(54, 1, 4, 2, "impact", NoneText),
      Ev(55, 1, 2, 1, "None", NoneText),
      Ev(56, 1, 2, NoId, "impact", NoneText) }

HostIds(hs) == {h.id : h \in hs}

\* foreign keys refer to a host of the same incident
FkOk(rows, hs) ==
    \A r \in rows : r.host_id # NoId =>
        \E h \in hs : h.id = r.host_id /\ h.incident_id = r.incident_id

ItemUniverse ==
    AccountUniverse \cup MalwareUniverse \cup HostIndicatorUniverse
        \cup NetworkIndicatorUniverse

TypeOK ==
    /\ hosts \in HostConfigs
    /\ accounts \subseteq AccountUniverse
    /\ malware \subseteq MalwareUniverse
    /\ host_indicators \subseteq HostIndicatorUniverse
    /\ network_indicators \subseteq NetworkIndicatorUniverse
    /\ FkOk(accounts \cup malware \cup host_indicators \cup network_indicators, hosts)
    /\ calls \in 0..(MaxCalls + 1)
    /\ nextId \in Nat

(***************************************************************************)
(* Query results                                                           *)
(***************************************************************************)
Perms(S) ==
    {s \in [1..Cardinality(S) -> S] : \A i, j \in 1..Cardinality(S) : i # j => s[i] # s[j]}

\* Query.all() without ORDER BY: rows in primary-storage (insertion) order
AllRows(S) ==
    CHOOSE s \in Perms(S) : \A i, j \in 1..Cardinality(S) : i < j => s[i].id < s[j].id

\* ORDER BY first_seen ASC with the rows that have no first_seen first
HostOrdersNullsFirst(inc) ==
    LET hs == {h \in hosts : h.incident_id = inc}
        Le(a, b) == \/ a.first_seen = NoTime
                    \/ (b.first_seen # NoTime /\ a.first_seen <= b.first_seen)
    IN {s \in Perms(hs) : \A i, j \in 1..Cardinality(hs) : i < j => Le(s[i], s[j])}

\* ORDER BY first_seen ASC NULLS LAST; rows with equal keys in any order
HostOrders(inc) ==
    LET hs == {h \in hosts : h.incident_id = inc}
        Le(a, b) == \/ b.first_seen = NoTime
                    \/ (a.first_seen # NoTime /\ a.first_seen <= b.first_seen)
    IN {s \in Perms(hs) : \A i, j \in 1..Cardinality(hs) : i < j => Le(s[i], s[j])}

\* filter(host_id IS NOT NULL) ORDER BY timestamp ASC; ties in any order
EventOrders(inc) ==
    LET es == {e \in events : e.incident_id = inc /\ e.host_id # NoId}
    IN {s \in Perms(es) : \A i, j \in 1..Cardinality(es) : i < j =>
                              s[i].timestamp <= s[j].timestamp}

(***************************************************************************)
(* GraphAutomationService: private helpers                                 *)
(***************************************************************************)
\* dict comprehension / loop of auto_generate: a later host overwrites an
\* earlier one with the same key
HostnameToId(hs) ==
    LET has(i) == Truthy(hs[i].hostname)
        key(i) == StrLower(hs[i].hostname)
        idx == {i \in 1..Len(hs) : has(i)}
    IN [k \in {key(i) : i \in idx} |->
           hs[CHOOSE i \in idx : key(i) = k /\ \A j \in idx : key(j) = k => j <= i].id]

IpToHostId(hs) ==
    LET has(i) == Truthy(hs[i].ip_address)
        key(i) == StrLower(hs[i].ip_address)
        idx == {i \in 1..Len(hs) : has(i)}
    IN [k \in {key(i) : i \in idx} |->
           hs[CHOOSE i \in idx : key(i) = k /\ \A j \in idx : key(j) = k => j <= i].id]

\* the address index consulted before the hostname index
ResolveHostIdIpFirst(obj_host_id, text_hostname, hostname_to_id, ip_to_host_id) ==
    IF obj_host_id # NoId THEN obj_host_id
    ELSE IF Truthy(text_hostname)
         THEN LET key == StrLower(StrStrip(text_hostname))
              IN IF key \in DOMAIN ip_to_host_id THEN ip_to_host_id[key]
                 ELSE IF key \in DOMAIN hostname_to_id THEN hostname_to_id[key]
                 ELSE NoId
         ELSE NoId

ResolveHostId(obj_host_id, text_hostname, hostname_to_id, ip_to_host_id) ==
    IF obj_host_id # NoId THEN obj_host_id
    ELSE IF Truthy(text_hostname)
         THEN LET key == StrLower(StrStrip(text_hostname))
              IN IF key \in DOMAIN hostname_to_id THEN hostname_to_id[key]
                 ELSE IF key \in DOMAIN ip_to_host_id THEN ip_to_host_id[key]
                 ELSE NoId
         ELSE NoId

\* grouping by the foreign key alone, without the text fallback
GroupByHostFkOnly(items, hostname_to_id, ip_to_host_id, hid) ==
    SelectSeq(items, LAMBDA item : item.host_id # NoId /\ item.host_id = hid)

\* grouped.get(hid, []) of the dict _group_by_host returns
GroupByHost(items, hostname_to_id, ip_to_host_id, hid) ==
    SelectSeq(items, LAMBDA item :
        LET r == ResolveHostId(item.host_id, item.host_text, hostname_to_id, ip_to_host_id)
        IN r # NoId /\ r = hid)

InferNodeType(host) ==
    IF Truthy(host.system_type)
    THEN LET st == StrLower(host.system_type)
         IN IF StrContains(st, T_domain_controller) \/ StrContains(st, T_dc)
            THEN "domain_controller"
            ELSE IF StrContains(st, T_server) THEN "server" ELSE "workstation"
    ELSE "workstation"

Node(id, inc, type, hid, aid, x, y, ia) ==
    [id |-> id, incident_id |-> inc, node_type |-> type,
     compromised_host_id |-> hid, compromised_account_id |-> aid,
     position_x |-> x, position_y |-> y,
     is_initial_access |-> ia, is_objective |-> FALSE]

Edge(id, inc, src, tgt, type, tactic, ts) ==
    [id |-> id, incident_id |-> inc, source_node_id |-> src, target_node_id |-> tgt,
     edge_type |-> type, mitre_tactic |-> tactic, timestamp |-> ts]

CreateHostNode(id, inc, host, index) ==
    Node(id, inc, InferNodeType(host), host.id, NoId,
         300 + (index % 4) * 600, 400 + (index \div 4) * 500, index = 0)

\* session.add + flush of a node / session.add of an edge: the row gets the
\* next fresh primary key and is appended to the list the caller returns
AddNode(G, n) ==
    [G EXCEPT !.nodes = @ \cup {n}, !.next = @ + 1, !.nc = Append(@, n.id)]

AddEdge(G, e) ==
    [G EXCEPT !.edges = @ \cup {e}, !.next = @ + 1, !.ec = Append(@, e.id)]

\* the existence query answering "no row" whatever is stored
EdgeExistsNever(G, src, tgt, type) == FALSE

\* AttackGraphEdge.query.filter_by(source_node_id, target_node_id, edge_type).first()
EdgeExists(G, src, tgt, type) ==
    \E e \in G.edges :
        e.source_node_id = src /\ e.target_node_id = tgt /\ e.edge_type = type

\* 180*cos(angle), 180*sin(angle) for angle = idx/n*2*pi - pi/2, rounded
CircleOffset(idx, n) ==
    LET k == (idx * 12) \div n
        xs == <<0, 90, 156, 180, 156, 90, 0, -90, -156, -180, -156, -90>>
        ys == <<-180, -156, -90, 0, 90, 156, 180, 156, 90, 0, -90, -156>>
    IN <<xs[(k % 12) + 1], ys[(k % 12) + 1]>>

RECURSIVE SubNodesLoop(_, _, _, _, _)
SubNodesLoop(G, inc, host_node, sub_elements, idx) ==
    IF idx >= Len(sub_elements) THEN G
    ELSE LET sub == sub_elements[idx + 1]
             off == CircleOffset(idx, Len(sub_elements))
             n == Node(G.next, inc, sub.node_type, NoId, sub.account_id,
                       host_node.position_x + off[1], host_node.position_y + off[2], FALSE)
             G1 == AddNode(G, n)
             G2 == AddEdge(G1, Edge(G1.next, inc, host_node.id, n.id,
                                    "associated_with", "None", NoTime))
         IN SubNodesLoop(G2, inc, host_node, sub_elements, idx + 1)

Tag(items, type, withAccount) ==
    [i \in 1..Len(items) |->
        [node_type |-> type, account_id |-> IF withAccount THEN items[i].id ELSE NoId]]

\* the sub-nodes of the accounts alone, malware and host indicators left out
CreateSubNodesAccountsOnly(G, inc, host, host_node, h2i, ip2i) ==
    LET accs == GroupByHost(AllRows({a \in accounts : a.incident_id = inc}), h2i, ip2i, host.id)
    IN SubNodesLoop(G, inc, host_node, Tag(accs, "user", TRUE), 0)

CreateSubNodes(G, inc, host, host_node, h2i, ip2i) ==
    LET accs == GroupByHost(AllRows({a \in accounts : a.incident_id = inc}), h2i, ip2i, host.id)
        mals == GroupByHost(AllRows({m \in malware : m.incident_id = inc}), h2i, ip2i, host.id)
        inds == GroupByHost(AllRows({x \in host_indicators : x.incident_id = inc}), h2i, ip2i, host.id)
        sub_elements == Tag(accs, "user", TRUE) \o Tag(mals, "malware", FALSE)
                            \o Tag(inds, "host_indicator", FALSE)
    IN SubNodesLoop(G, inc, host_node, sub_elements, 0)

RECURSIVE HostNodesLoop(_, _, _, _, _, _)
HostNodesLoop(G, inc, hs, h2i, ip2i, i) ==
    IF i >= Len(hs) THEN G
    ELSE LET host_node == CreateHostNode(G.next, inc, hs[i + 1], i)
             G1 == [AddNode(G, host_node) EXCEPT
                       !.node_map = [h \in DOMAIN @ \cup {hs[i + 1].id} |->
                                        IF h = hs[i + 1].id THEN host_node.id ELSE @[h]]]
         IN HostNodesLoop(CreateSubNodes(G1, inc, hs[i + 1], host_node, h2i, ip2i),
                          inc, hs, h2i, ip2i, i + 1)

RECURSIVE NetworkIocLoop(_, _, _, _, _, _, _, _, _)
NetworkIocLoop(G, inc, all_iocs, h2i, ip2i, ip_to_node, x, y, i) ==
    IF i > Len(all_iocs) THEN G
    ELSE LET ioc == all_iocs[i]
             target_hid == ResolveHostId(ioc.host_id, ioc.host_text, h2i, ip2i)
         IN IF target_hid = NoId \/ target_hid \notin DOMAIN G.node_map
            THEN NetworkIocLoop(G, inc, all_iocs, h2i, ip2i, ip_to_node, x, y, i + 1)
            ELSE IF ioc.dns_ip \in DOMAIN ip_to_node
            THEN LET existing == ip_to_node[ioc.dns_ip]
                     host_node == G.node_map[target_hid]
                     G1 == IF ~EdgeExists(G, host_node, existing, "associated_with")
                           THEN AddEdge(G, Edge(G.next, inc, host_node, existing,
                                                "associated_with", "None", NoTime))
                           ELSE G
                 IN NetworkIocLoop(G1, inc, all_iocs, h2i, ip2i, ip_to_node, x, y, i + 1)
            ELSE LET ioc_node == Node(G.next, inc, "ip_address", NoId, NoId, x, y, FALSE)
                     G1 == AddNode(G, ioc_node)
                     m1 == [k \in DOMAIN ip_to_node \cup {ioc.dns_ip} |->
                               IF k = ioc.dns_ip THEN ioc_node.id ELSE ip_to_node[k]]
                     x1 == IF x + 150 > 1200 THEN 100 ELSE x + 150
                     y1 == IF x + 150 > 1200 THEN y + 120 ELSE y
                     G2 == AddEdge(G1, Edge(G1.next, inc, G.node_map[target_hid], ioc_node.id,
                                            "associated_with", "None", NoTime))
                 IN NetworkIocLoop(G2, inc, all_iocs, h2i, ip2i, m1, x1, y1, i + 1)

\* every indicator row taken as a value of its own, so that no ip_address
\* node is reused
CreateNetworkIocNodesNoDedup(G, inc, h2i, ip2i) ==
    LET all_iocs == AllRows({n \in network_indicators : n.incident_id = inc})
    IN NetworkIocLoop(G, inc,
                      [i \in 1..Len(all_iocs) |->
                          [all_iocs[i] EXCEPT !.dns_ip = <<@, all_iocs[i].id>>]],
                      h2i, ip2i, << >>, 100, 100, 1)

\* an indicator whose host does not resolve being attached to some host
\* node instead of being skipped
CreateNetworkIocNodesFallback(G, inc, h2i, ip2i) ==
    LET all_iocs == AllRows({n \in network_indicators : n.incident_id = inc})
        anyHost == CHOOSE h \in DOMAIN G.node_map : TRUE
    IN NetworkIocLoop(G, inc,
                      [i \in 1..Len(all_iocs) |->
                          IF ResolveHostId(all_iocs[i].host_id, all_iocs[i].host_text,
                                           h2i, ip2i) = NoId
                          THEN [all_iocs[i] EXCEPT !.host_id = anyHost]
                          ELSE all_iocs[i]],
                      h2i, ip2i, << >>, 100, 100, 1)

CreateNetworkIocNodes(G, inc, h2i, ip2i) ==
    NetworkIocLoop(G, inc, AllRows({n \in network_indicators : n.incident_id = inc}),
                   h2i, ip2i, << >>, 100, 100, 1)

RECURSIVE LateralLoop(_, _, _, _, _)
LateralLoop(G, inc, evs, prev_host_id, i) ==
    IF i > Len(evs) THEN G
    ELSE LET cur_host_id == evs[i].host_id
             both == /\ prev_host_id # NoId /\ cur_host_id # prev_host_id
                     /\ prev_host_id \in DOMAIN G.node_map
                     /\ cur_host_id \in DOMAIN G.node_map
             G1 == IF both /\ ~EdgeExists(G, G.node_map[prev_host_id],
                                          G.node_map[cur_host_id], "lateral_movement")
                   THEN AddEdge(G, Edge(G.next, inc, G.node_map[prev_host_id],
                                        G.node_map[cur_host_id], "lateral_movement",
                                        evs[i].mitre_tactic, evs[i].timestamp))
                   ELSE G
         IN LateralLoop(G1, inc, evs, cur_host_id, i + 1)

\* walking the events in descending instead of ascending order
CreateLateralDescending(G, inc, evs) ==
    LateralLoop(G, inc, [i \in 1..Len(evs) |-> evs[Len(evs) + 1 - i]], NoId, 1)

CreateLateralMovementEdges(G, inc, evs) == LateralLoop(G, inc, evs, NoId, 1)

\* the two bulk deletes without the incident filter
ClearGraphAll(G, inc) == [G EXCEPT !.nodes = {}, !.edges = {}]

\* the node delete alone, with no cascade to the edges
ClearGraphNodesOnly(G, inc) ==
    [G EXCEPT !.nodes = {n \in G.nodes : n.incident_id # inc}]

\* the two bulk deletes left out
ClearGraphNone(G, inc) == G

\* the two bulk deletes of auto_generate; the edge foreign keys are
\* ON DELETE CASCADE
ClearGraph(G, inc) ==
    LET ns == {n \in G.nodes : n.incident_id # inc}
    IN [G EXCEPT !.nodes = ns,
                 !.edges = {e \in G.edges : /\ e.incident_id # inc
                                            /\ \E n \in ns : n.id = e.source_node_id
                                            /\ \E n \in ns : n.id = e.target_node_id}]

Session(ns, es, nx) ==
    [nodes |-> ns, edges |-> es, next |-> nx, nc |-> << >>, ec |-> << >>,
     node_map |-> << >>]

\* a rebuild that also flags the nodes of the hosts of impact events
GenerateGraphWithEventFlags(G, inc, hs, evs) ==
    IF Len(hs) = 0 THEN G
    ELSE LET h2i == HostnameToId(hs)
             ip2i == IpToHostId(hs)
             G1 == HostNodesLoop(G, inc, hs, h2i, ip2i, 0)
             G2 == CreateNetworkIocNodes(G1, inc, h2i, ip2i)
             G3 == CreateLateralMovementEdges(G2, inc, evs)
         IN [G3 EXCEPT !.nodes =
                {[n EXCEPT !.is_objective =
                      @ \/ (/\ n.incident_id = inc
                            /\ n.compromised_host_id # NoId
                            /\ \E i \in 1..Len(evs) :
                                  /\ evs[i].mitre_tactic = "impact"
                                  /\ evs[i].host_id = n.compromised_host_id)] : n \in @}]

\* auto_generate after the first commit, for one result order of the two
\* ORDER BY queries
GenerateGraph(G, inc, hs, evs) ==
    IF Len(hs) = 0 THEN G
    ELSE LET h2i == HostnameToId(hs)
             ip2i == IpToHostId(hs)
             G1 == HostNodesLoop(G, inc, hs, h2i, ip2i, 0)
             G2 == CreateNetworkIocNodes(G1, inc, h2i, ip2i)
         IN CreateLateralMovementEdges(G2, inc, evs)

(***************************************************************************)
(* GraphAutomationService: per-event processing                            *)
(***************************************************************************)
\* Query.first() without ORDER BY: the row stored first
FirstRow(S) == CHOOSE r \in S : \A q \in S : r.id <= q.id

\* the node lookup finding nothing, so that a node is always created
GetOrCreateNodeAlways(G, incident_id, host_id) ==
    LET hs == {h \in hosts : h.id = host_id}
    IN IF hs = {} THEN [G |-> G, node |-> NoId]
       ELSE LET host == CHOOSE h \in hs : TRUE
                n == Node(G.next, incident_id, InferNodeType(host), host_id, NoId,
                          0, 0, FALSE)
            IN [G |-> AddNode(G, n), node |-> n.id]

\* the node lookup without the incident filter
GetOrCreateNodeAnyIncident(G, incident_id, host_id) ==
    LET found == {n \in G.nodes : n.compromised_host_id = host_id}
        hs == {h \in hosts : h.id = host_id}
    IN IF found # {} THEN [G |-> G, node |-> FirstRow(found).id]
       ELSE IF hs = {} THEN [G |-> G, node |-> NoId]
       ELSE LET host == CHOOSE h \in hs : TRUE
                n == Node(G.next, incident_id, InferNodeType(host), host_id, NoId,
                          0, 0, FALSE)
            IN [G |-> AddNode(G, n), node |-> n.id]

\* returns the session and the node id, NoId standing for None
GetOrCreateNode(G, incident_id, host_id) ==
    LET found == {n \in G.nodes : /\ n.incident_id = incident_id
                                  /\ n.compromised_host_id = host_id}
        hs == {h \in hosts : h.id = host_id}
    IN IF found # {} THEN [G |-> G, node |-> FirstRow(found).id]
       ELSE IF hs = {} THEN [G |-> G, node |-> NoId]
       ELSE LET host == CHOOSE h \in hs : TRUE
                n == Node(G.next, incident_id, InferNodeType(host), host_id, NoId,
                          0, 0, FALSE)
            IN [G |-> AddNode(G, n), node |-> n.id]

\* the flag assignment reaching every node of the session
SetFlagAll(G, node_id, flag) ==
    [G EXCEPT !.nodes = {[n EXCEPT ![flag] = TRUE] : n \in @}]

\* the flag assignment being lost
SetFlagNoOp(G, node_id, flag) == G

SetFlag(G, node_id, flag) ==
    [G EXCEPT !.nodes = {IF n.id = node_id THEN [n EXCEPT ![flag] = TRUE] ELSE n : n \in @}]

\* the two CompromisedHost lookups for event.source; NoId when both miss
FindSourceHost(event) ==
    LET byName == {h \in hosts : /\ h.incident_id = event.incident_id
                                 /\ h.hostname = event.source}
        byIp == {h \in hosts : /\ h.incident_id = event.incident_id
                               /\ h.ip_address = event.source}
    IN IF byName # {} THEN FirstRow(byName).id
       ELSE IF StrIsDigit(StrRemoveDots(event.source)) /\ byIp # {}
            THEN FirstRow(byIp).id
            ELSE NoId

\* how the body ends: by return after reaching the commit, by the early
\* return before any storage call, or by an AttributeError on None
Returned(G) == [G |-> G, raised |-> FALSE, commit |-> TRUE]
EarlyReturn(G) == [G |-> G, raised |-> FALSE, commit |-> FALSE]
Raised(G) == [G |-> G, raised |-> TRUE, commit |-> FALSE]

\* the duplicate check of the per-event path finding nothing
LateralEdgeExistsNever(G, incident_id, src, tgt) == FALSE

\* AttackGraphEdge.query.filter_by(incident_id, source_node_id, target_node_id,
\*                                 edge_type='lateral_movement').first()
LateralEdgeExists(G, incident_id, src, tgt) ==
    \E e \in G.edges : /\ e.incident_id = incident_id
                       /\ e.source_node_id = src
                       /\ e.target_node_id = tgt
                       /\ e.edge_type = "lateral_movement"

\* the edge drawn from the event's host to the source host
LateralBranchReversed(G, event, target) ==
    LET source_host == FindSourceHost(event)
    IN IF source_host = NoId THEN Returned(G)
       ELSE LET r == GetOrCreateNode(G, event.incident_id, source_host)
            IN IF target = NoId
               THEN Raised(r.G)
               ELSE IF LateralEdgeExists(r.G, event.incident_id, target, r.node)
                    THEN Returned(r.G)
                    ELSE Returned(AddEdge(r.G, Edge(r.G.next, event.incident_id, target,
                                                    r.node, "lateral_movement",
                                                    "lateral-movement", event.timestamp)))

\* the lateral-movement branch; target is the node id of the event's host
LateralBranch(G, event, target) ==
    LET source_host == FindSourceHost(event)
    IN IF source_host = NoId THEN Returned(G)
       ELSE LET r == GetOrCreateNode(G, event.incident_id, source_host)
            IN IF target = NoId
               THEN Raised(r.G)    \* target_node.id on None
               ELSE IF LateralEdgeExists(r.G, event.incident_id, r.node, target)
                    THEN Returned(r.G)
                    ELSE Returned(AddEdge(r.G, Edge(r.G.next, event.incident_id, r.node,
                                                    target, "lateral_movement",
                                                    "lateral-movement", event.timestamp)))

\* lines 109-117: the node of the event's host and its two flags
TargetStep(G, event) ==
    LET r == GetOrCreateNode(G, event.incident_id, event.host_id)
    IN IF event.mitre_tactic \in {"initial-access", "impact"}
       THEN IF r.node = NoId
            THEN [G |-> r.G, target |-> NoId, raised |-> TRUE]   \* attribute set on None
            ELSE [G |-> SetFlag(r.G, r.node,
                                IF event.mitre_tactic = "impact"
                                THEN "is_objective" ELSE "is_initial_access"),
                  target |-> r.node, raised |-> FALSE]
       ELSE [G |-> r.G, target |-> r.node, raised |-> FALSE]

\* lines 119-151
LateralStep(G, event, target) ==
    IF event.mitre_tactic = "lateral-movement" /\ Truthy(event.source)
    THEN LateralBranch(G, event, target)
    ELSE Returned(G)

\* the body without the early return for an event that has no host
ProcessEventBodyNoGuard(G, event) ==
    LET t == TargetStep(G, event)
    IN IF t.raised THEN Raised(t.G) ELSE LateralStep(t.G, event, t.target)

\* process_event_for_graph up to, not including, the final commit
ProcessEventBody(G, event) ==
    IF event.host_id = NoId THEN EarlyReturn(G)
    ELSE LET t == TargetStep(G, event)
         IN IF t.raised THEN Raised(t.G) ELSE LateralStep(t.G, event, t.target)

(***************************************************************************)
(* Calls.  A call runs in its own request and session: what it has not     *)
(* committed when it raises is rolled back when the session is removed.    *)
(***************************************************************************)
Procs == {1, 2}
DanglingHost == 9
NoEvent == Ev(0, 0, 0, NoId, "None", NoneText)

\* events handed to process_event_for_graph
EventInputs ==
    { Ev(90, 1, 5, NoId, "impact", NoneText),
      Ev(90, 1, 5, NoId, "lateral-movement", T_WS1),
      Ev(90, 1, 5, 1, "initial-access", NoneText),
      Ev(90, 1, 5, 2, "impact", NoneText),
      Ev(90, 1, 5, 2, "lateral-movement", T_WS1),
      Ev(90, 1, 5, 2, "lateral-movement", T_ip1),
      Ev(90, 1, 5, 2, "lateral-movement", T_dc01),
      Ev(90, 1, 5, 1, "lateral-movement", T_nohost),
      Ev(90, 1, 5, 1, "lateral-movement", T_dc01),
      Ev(90, 1, 5, 1, "discovery", T_dc01),
      Ev(90, 2, 5, 3, "impact", NoneText),
      Ev(90, 2, 5, 1, "impact", NoneText),
      Ev(90, 1, 5, DanglingHost, "initial-access", NoneText),
      Ev(90, 1, 5, DanglingHost, "lateral-movement", T_WS1),
      Ev(90, 1, 5, DanglingHost, "discovery", NoneText) }

\* the host a lateral-movement event names as its source, NoId if none
SourceHostOf(ev) ==
    IF ev.mitre_tactic = "lateral-movement" /\ Truthy(ev.source)
    THEN FindSourceHost(ev) ELSE NoId

\* socketio.emit calls of the request handlers: auto_generate_attack_graph
\* has none, create_timeline_event announces the event (line 140) once
\* event.to_dict() has returned, create_graph_node announces the node
Emits(op, inc, status, G) ==
    CASE op = "create_timeline_event" /\ status = 201 ->
             <<[name |-> "timeline_event_added", room |-> inc]>>
      [] op = "create_graph_node" /\ status = 201 ->
             [i \in 1..Len(G.nc) |-> [name |-> "graph_node_added", room |-> inc]]
      [] OTHER -> << >>

Result(op, inc, ev, fail, raised, status, G, hs, evs) ==
    [op |-> op, incident |-> inc, event |-> ev, fail |-> fail, raised |-> raised,
     status |-> status, nc |-> G.nc, ec |-> G.ec, hs |-> hs, evs |-> evs,
     src_host |-> SourceHostOf(ev),
     emits |-> Emits(op, inc, status, G),
     prev |-> [op |-> last.op, incident |-> last.incident, raised |-> last.raised,
               event |-> last.event],
     repeat |-> /\ op = "process_event" /\ last.op = "process_event"
                /\ ~last.raised /\ ~raised
                /\ ev.host_id # NoId /\ last.event.host_id = ev.host_id
                /\ last.event.incident_id = ev.incident_id
                /\ SourceHostOf(ev) # NoId /\ last.src_host = SourceHostOf(ev)]

Empty == Session({}, {}, 0)

\* a request's session: what it runs and the rows it has not committed yet
IdleLoc ==
    [op |-> "none", incident |-> 0, event |-> NoEvent, addN |-> {}, addE |-> {},
     flags |-> {}, target |-> NoId, raised |-> FALSE]

\* POST /incidents/<id>/attack-graph/auto-generate -> auto_generate.
\* fail names the storage call that raises: the commit after the deletes,
\* a flush while rows are created, or the final commit.
AutoGenerate(inc, fail) ==
    /\ calls < MaxCalls
    /\ calls' = calls + 1
    /\ LET G0 == ClearGraph(Session(nodes, edges, nextId), inc)
       IN \E hs \in HostOrders(inc), evs \in EventOrders(inc) :
            LET G == GenerateGraph(G0, inc, hs, evs)
            IN CASE fail = "commit1" ->
                      /\ UNCHANGED <<nodes, edges, nextId>>
                      /\ last' = Result("auto_generate", inc, NoEvent, fail, TRUE, 500,
                                        Empty, << >>, << >>)
                 [] fail \in {"flush", "commit2"} ->
                      /\ Len(hs) > 0
                      /\ nodes' = G0.nodes
                      /\ edges' = G0.edges
                      /\ UNCHANGED nextId
                      /\ last' = Result("auto_generate", inc, NoEvent, fail, TRUE, 500,
                                        Empty, hs, evs)
                 [] OTHER ->
                      /\ nodes' = G.nodes
                      /\ edges' = G.edges
                      /\ nextId' = G.next
                      /\ last' = Result("auto_generate", inc, NoEvent, fail, FALSE,
                                        IF Len(G.nc) = 0 /\ Len(G.ec) = 0 THEN 200 ELSE 201,
                                        G, hs, evs)
    /\ UNCHANGED <<sourceVars, events, pc, loc>>

\* the storage call of process_event_for_graph that can raise for this event
CanFail(event, B, fail) ==
    CASE fail = "none" -> TRUE
      [] fail = "read" -> event.host_id # NoId
      [] fail = "flush" -> Len(B.G.nc) > 0
      [] fail = "commit" -> event.host_id # NoId /\ ~B.raised
      [] OTHER -> FALSE

\* process_event_for_graph(event), called from a request that does nothing
\* else with the session
ProcessEvent(event, fail) ==
    /\ calls < MaxCalls
    /\ calls' = calls + 1
    /\ event.host_id \in HostIds(hosts) \cup {NoId, DanglingHost}
    /\ LET B == ProcessEventBody(Session(nodes, edges, nextId), event)
           raised == B.raised \/ fail # "none"
       IN /\ CanFail(event, B, fail)
          /\ IF raised \/ ~B.commit
             THEN UNCHANGED <<nodes, edges, nextId>>
             ELSE /\ nodes' = B.G.nodes
                  /\ edges' = B.G.edges
                  /\ nextId' = B.G.next
          /\ last' = Result("process_event", event.incident_id, event, fail, raised, 0,
                            IF raised THEN Empty ELSE B.G, << >>, << >>)
    /\ UNCHANGED <<sourceVars, events, pc, loc>>

InitGraph ==
    /\ nodes = {}
    /\ edges = {}
    /\ nextId = 100
    /\ calls = 0
    /\ last = [op |-> "init", incident |-> 0, event |-> NoEvent, fail |-> "none",
               raised |-> FALSE, status |-> 0, nc |-> << >>, ec |-> << >>,
               hs |-> << >>, evs |-> << >>, src_host |-> NoId, emits |-> << >>,
               prev |-> [op |-> "init", incident |-> 0, raised |-> FALSE, event |-> NoEvent],
               repeat |-> FALSE]
    /\ pc = [p \in Procs |-> "idle"]
    /\ loc = [p \in Procs |-> IdleLoc]

InitSource(rowSets, eventSets) ==
    /\ hosts \in HostConfigs
    /\ \E rows \in rowSets :
          /\ FkOk(rows, hosts)
          /\ accounts = rows \cap AccountUniverse
          /\ malware = rows \cap MalwareUniverse
          /\ host_indicators = rows \cap HostIndicatorUniverse
          /\ network_indicators = rows \cap NetworkIndicatorUniverse
    /\ events \in eventSets
    /\ FkOk(events, hosts)

EventsAB == {e \in EventUniverse : e.id \in {51, 52}}

EventsABAB == {e \in EventUniverse : e.id \in {51, 52, 53, 54}}

SeqRowSets ==
    { {}, {r \in ItemUniverse : r.id \in {11, 32}}, {r \in ItemUniverse : r.id \in {41, 42, 43}} }

Init ==
    /\ InitGraph
    /\ InitSource(SeqRowSets, {{}, EventsABAB})
    /\ hosts \in {{H3}, {H1, H2, H3}}

Next ==
    \/ \E inc \in Incidents, fail \in {"none", "commit1", "flush", "commit2"} :
          AutoGenerate(inc, fail)
    \/ \E event \in EventInputs, fail \in {"none", "read", "flush", "commit"} :
          ProcessEvent(event, fail)

Spec == Init /\ [][Next]_vars

\* bulk mode alone, over richer source data
BoundedRowSets == {rows \in SUBSET ItemUniverse : Cardinality(rows) <= MaxRows}

InitBuild ==
    /\ InitGraph
    /\ \/ InitSource(BoundedRowSets, {{}, EventsAB})
       \/ InitSource({{}}, SUBSET EventUniverse)

NextBuild == \E inc \in Incidents : AutoGenerate(inc, "none")

SpecBuild == InitBuild /\ [][NextBuild]_vars

(***************************************************************************)
(* POST /incidents/<id>/timeline (create_timeline_event under audit_log)   *)
(***************************************************************************)
\* request bodies: the event to create (its id is assigned on insert)
DataInputs ==
    {e \in EventInputs : e.host_id # DanglingHost} \cup
        { Ev(90, 1, 5, 3, "impact", NoneText) }

\* A failed flush leaves the session's transaction inactive and its objects
\* expired until rollback() is called; the except clause of
\* create_timeline_event does not call it, so the attribute reads of
\* event.to_dict() raise.  A failed commit rolls the session back itself,
\* and a failed read leaves the loaded attributes in place.
SessionInactive(fail) == fail = "flush"

\* the rows of the body being stored whatever failed
SessionKeepsAlways(fail, B) == TRUE

\* what the session holds when audit_log commits: the rows of a body that
\* committed, or that raised without a storage failure.  After a failed
\* statement the transaction is aborted, so the insert of the audit row
\* fails and audit_log rolls back; a failed commit has rolled back itself.
SessionKeeps(fail, B) == fail = "none" /\ (B.commit \/ B.raised)

CreateTimelineEvent(inc, data, fail) ==
    /\ calls < MaxCalls
    /\ calls' = calls + 1
    /\ data.incident_id = inc
    /\ LET valid == \/ data.host_id = NoId
                    \/ \E h \in hosts : h.id = data.host_id /\ h.incident_id = inc
           event == [data EXCEPT !.id = nextId]
           B == ProcessEventBody(Session(nodes, edges, nextId + 1), event)
           kept == SessionKeeps(fail, B)
       IN IF ~valid
          THEN /\ fail = "none"
               /\ UNCHANGED <<events, nodes, edges, nextId>>
               /\ last' = Result("create_timeline_event", inc, data, fail, FALSE, 400,
                                 Empty, << >>, << >>)
          ELSE /\ CanFail(event, B, fail)
               /\ events' = events \cup {event}
               /\ nodes' = IF kept THEN B.G.nodes ELSE nodes
               /\ edges' = IF kept THEN B.G.edges ELSE edges
               /\ nextId' = IF kept THEN B.G.next ELSE nextId + 1
               /\ last' = Result("create_timeline_event", inc, event, fail,
                                 SessionInactive(fail),
                                 IF SessionInactive(fail) THEN 500 ELSE 201,
                                 IF kept THEN B.G ELSE Empty, << >>, << >>)
    /\ UNCHANGED <<sourceVars, pc, loc>>

(***************************************************************************)
(* POST /incidents/<id>/attack-graph/nodes (create_graph_node)             *)
(***************************************************************************)
NODE_TYPES ==
    {"workstation", "server", "domain_controller", "attacker", "c2_server",
     "cloud_resource", "user", "service_account", "external", "unknown",
     "ip_address", "malware", "host_indicator", "database", "web_server", "file_server"}

\* request bodies: node_type and compromised_host_id (the label is given)
NodeInputs ==
    { [node_type |-> "workstation", compromised_host_id |-> 1],
      [node_type |-> "attacker", compromised_host_id |-> NoId],
      [node_type |-> "router", compromised_host_id |-> NoId] }

CreateGraphNode(inc, data) ==
    /\ calls < MaxCalls
    /\ calls' = calls + 1
    /\ data.compromised_host_id \in HostIds(hosts) \cup {NoId}
    /\ IF data.node_type \notin NODE_TYPES
       THEN /\ UNCHANGED <<nodes, nextId>>
            /\ last' = Result("create_graph_node", inc, NoEvent, "none", FALSE, 400,
                              Empty, << >>, << >>)
       ELSE LET G == AddNode(Session(nodes, edges, nextId),
                             Node(nextId, inc, data.node_type, data.compromised_host_id,
                                  NoId, 0, 0, FALSE))
            IN /\ nodes' = G.nodes
               /\ nextId' = G.next
               /\ last' = Result("create_graph_node", inc, NoEvent, "none", FALSE, 201,
                                 G, << >>, << >>)
    /\ UNCHANGED <<sourceVars, events, edges, pc, loc>>

NextApi ==
    \/ \E inc \in Incidents, fail \in {"none", "commit1", "flush", "commit2"} :
          AutoGenerate(inc, fail)
    \/ \E inc \in Incidents, data \in DataInputs, fail \in {"none", "read", "flush", "commit"} :
          CreateTimelineEvent(inc, data, fail)
    \/ \E inc \in Incidents, data \in NodeInputs : CreateGraphNode(inc, data)

SpecApi == Init /\ [][NextApi]_vars

(***************************************************************************)
(* Concurrent requests.  Each request has its own session; a statement     *)
(* sees the committed rows plus the rows its own session has flushed       *)
(* (READ COMMITTED).  Nothing in auto_generate, process_event_for_graph or *)
(* their handlers takes a lock.                                            *)
(***************************************************************************)
FlagNames == {"is_initial_access", "is_objective"}

ApplyFlags(ns, flags) ==
    {[n EXCEPT !.is_initial_access = @ \/ <<n.id, "is_initial_access">> \in flags,
               !.is_objective = @ \/ <<n.id, "is_objective">> \in flags] : n \in ns}

View(p) ==
    Session(ApplyFlags(nodes, loc[p].flags) \cup loc[p].addN,
            edges \cup loc[p].addE, nextId)

\* the session after its statements turned the view into G
Pending(l, G) ==
    [l EXCEPT !.addN = {n \in G.nodes : \A m \in nodes : m.id # n.id},
              !.addE = G.edges \ edges,
              !.flags = {x \in {n.id : n \in nodes} \X FlagNames :
                            \E n \in G.nodes, m \in nodes :
                                n.id = x[1] /\ m.id = x[1] /\ n[x[2]] /\ ~m[x[2]]}]

ConcEvents ==
    { Ev(90, 1, 5, 2, "lateral-movement", T_WS1),
      Ev(90, 1, 5, 1, "initial-access", NoneText),
      Ev(90, 1, 5, 2, "impact", NoneText),
      Ev(90, 2, 5, 3, "initial-access", NoneText),
      Ev(90, 2, 5, 3, "lateral-movement", T_WS1),
      Ev(90, 2, 5, 1, "impact", NoneText) }

\* auto_generate lines 30-32
BuildClear(p, inc) ==
    /\ pc[p] = "idle"
    /\ LET G0 == ClearGraph(Session(nodes, edges, nextId), inc)
       IN nodes' = G0.nodes /\ edges' = G0.edges
    /\ pc' = [pc EXCEPT ![p] = "cleared"]
    /\ loc' = [loc EXCEPT ![p] = [IdleLoc EXCEPT !.op = "auto_generate", !.incident = inc]]
    /\ UNCHANGED <<sourceVars, events, nextId, calls, last>>

\* auto_generate lines 34-96
BuildCreate(p) ==
    /\ pc[p] = "cleared"
    /\ \E hs \in HostOrders(loc[p].incident), evs \in EventOrders(loc[p].incident) :
          LET G == GenerateGraph(View(p), loc[p].incident, hs, evs)
          IN /\ loc' = [loc EXCEPT ![p] = Pending(@, G)]
             /\ nextId' = G.next
    /\ pc' = [pc EXCEPT ![p] = "created"]
    /\ UNCHANGED <<sourceVars, events, nodes, edges, calls, last>>

\* process_event_for_graph lines 109-117
EventTarget(p, event) ==
    /\ pc[p] = "idle"
    /\ event.host_id \in HostIds(hosts)
    /\ LET t == TargetStep(View(p), event)
           l == [IdleLoc EXCEPT !.op = "process_event", !.incident = event.incident_id,
                                !.event = event, !.target = t.target, !.raised = t.raised]
       IN /\ loc' = [loc EXCEPT ![p] = IF t.raised THEN l ELSE Pending(l, t.G)]
          /\ nextId' = t.G.next
          /\ pc' = [pc EXCEPT ![p] = IF t.raised THEN "done" ELSE "targeted"]
    /\ UNCHANGED <<sourceVars, events, nodes, edges, calls, last>>

\* process_event_for_graph lines 119-151
EventLateral(p) ==
    /\ pc[p] = "targeted"
    /\ LET B == LateralStep(View(p), loc[p].event, loc[p].target)
       IN /\ loc' = [loc EXCEPT ![p] = IF B.raised THEN [@ EXCEPT !.raised = TRUE]
                                                   ELSE Pending(@, B.G)]
          /\ nextId' = B.G.next
          /\ pc' = [pc EXCEPT ![p] = IF B.raised THEN "done" ELSE "processed"]
    /\ UNCHANGED <<sourceVars, events, nodes, edges, calls, last>>

\* db.session.commit() (lines 98 and 153).  The insert of an edge whose
\* node another request has deleted meanwhile violates the foreign key and
\* the commit raises.
Commit(p) ==
    /\ pc[p] \in {"created", "processed"}
    /\ LET ns == ApplyFlags(nodes, loc[p].flags) \cup loc[p].addN
           fk == \A e \in loc[p].addE :
                    /\ \E n \in ns : n.id = e.source_node_id
                    /\ \E n \in ns : n.id = e.target_node_id
       IN IF fk
          THEN /\ nodes' = ns
               /\ edges' = edges \cup loc[p].addE
               /\ loc' = loc
          ELSE /\ UNCHANGED <<nodes, edges>>
               /\ loc' = [loc EXCEPT ![p].raised = TRUE]
    /\ pc' = [pc EXCEPT ![p] = "done"]
    /\ UNCHANGED <<sourceVars, events, nextId, calls, last>>

InitConc ==
    /\ InitGraph
    /\ InitSource({{}, {r \in ItemUniverse : r.id \in {11, 41}}}, {{}, EventsAB})
    /\ hosts = {H1, H2, H3}

NextConc ==
    \/ \E p \in Procs, inc \in Incidents : BuildClear(p, inc)
    \/ \E p \in Procs : BuildCreate(p)
    \/ \E p \in Procs, event \in ConcEvents : EventTarget(p, event)
    \/ \E p \in Procs : EventLateral(p)
    \/ \E p \in Procs : Commit(p)

SpecConc == InitConc /\ [][NextConc]_vars

(***************************************************************************)
(* _resolve_host_id on its own, over the indexes auto_generate builds      *)
(***************************************************************************)
T_IP2_pad == <<" ","1","0",".","0",".","0",".","2","\t">>
T_WS1_pad == <<"\n","W","S","1"," ">>
T_blank == <<" ">>

\* a host whose hostname is the address of another host
H5 == [id |-> 5, incident_id |-> 1, hostname |-> T_ip2, ip_address |-> NoneText,
       system_type |-> NoneText, first_seen |-> 1]

ResolveHostConfigs == { {H1, H2, H3}, {H1, H4, H5} }

ResolveTexts ==
    { NoneText, << >>, T_blank, T_WS1, T_ws1_pad, T_WS1_pad, T_DC01, T_ip1, T_ip2,
      T_IP2_pad, T_ip3, T_fs9, T_nohost }

ResolveCall(inc, obj_host_id, text_hostname) ==
    /\ calls < MaxCalls
    /\ calls' = calls + 1
    /\ \E hs \in HostOrders(inc) :
          last' = Result("resolve_host_id", inc, NoEvent, "none", FALSE, 0, Empty, hs, << >>)
                    @@ [obj_host_id |-> obj_host_id, text_hostname |-> text_hostname,
                        ret |-> ResolveHostId(obj_host_id, text_hostname,
                                              HostnameToId(hs), IpToHostId(hs))]
    /\ UNCHANGED <<sourceVars, events, nodes, edges, nextId, pc, loc>>

InitResolve ==
    /\ InitGraph
    /\ hosts \in ResolveHostConfigs
    /\ accounts = {} /\ malware = {} /\ host_indicators = {} /\ network_indicators = {}
    /\ events = {}

NextResolve ==
    \E inc \in Incidents, obj_host_id \in {NoId, 1, 2, DanglingHost},
       text_hostname \in ResolveTexts :
          ResolveCall(inc, obj_host_id, text_hostname)

SpecResolve == InitResolve /\ [][NextResolve]_vars

(***************************************************************************)
(* Properties                                                              *)
(***************************************************************************)
NodeById(id) == CHOOSE n \in nodes : n.id = id
HostOfNode(id) == IF \E n \in nodes : n.id = id THEN NodeById(id).compromised_host_id ELSE NoId
IncHosts(inc) == {h \in hosts : h.incident_id = inc}
Called(op) == calls' = calls + 1 /\ last'.op = op

\* C1: after any sequence of completed auto_generate and
\* process_event_for_graph calls, no two stored edges have the same
\* (source_node_id, target_node_id, edge_type).
C1_NoDuplicateEdges ==
    \A e1, e2 \in edges :
        (/\ e1.source_node_id = e2.source_node_id
         /\ e1.target_node_id = e2.target_node_id
         /\ e1.edge_type = e2.edge_type) => e1 = e2

\* a rebuild walked a repeated A->B transition and two indicators of one
\* host with the same value, and stored edges of both types
C1_Witness ==
    /\ last.op = "auto_generate" /\ ~last.raised /\ last.incident = 1
    /\ events = EventsABAB
    /\ {r.id : r \in network_indicators} = {41, 42, 43}
    /\ \E e \in edges : e.edge_type = "lateral_movement"
    /\ \E e \in edges : e.edge_type = "associated_with"

Norm(t) == StrLower(StrStrip(t))

\* the row names, by foreign key or by text, a host of its own incident
NamesHost(r) ==
    \/ r.host_id # NoId
    \/ /\ Truthy(r.host_text)
       /\ \E h \in IncHosts(r.incident_id) :
             \/ Norm(r.host_text) = StrLower(h.hostname)
             \/ Truthy(h.ip_address) /\ Norm(r.host_text) = StrLower(h.ip_address)

NodesOf(inc) == {n \in nodes : n.incident_id = inc}
EdgesOf(inc) == {e \in edges : e.incident_id = inc}
HostNodes(inc, hid) == {n \in NodesOf(inc) : n.compromised_host_id = hid}

\* C2: for an incident with at least one host, auto_generate produces
\* exactly one host node per host, and the number of nodes it creates is
\* hosts + accounts, malware items and host indicators grouped under a host
\* + distinct dns_ip values of the network indicators whose host resolves.
C2_NodeCount ==
    (last.op = "auto_generate" /\ ~last.raised /\ IncHosts(last.incident) # {}) =>
        LET inc == last.incident
            items == {r \in accounts \cup malware \cup host_indicators :
                         r.incident_id = inc /\ NamesHost(r)}
            values == {r.dns_ip : r \in {x \in network_indicators :
                                            x.incident_id = inc /\ NamesHost(x)}}
        IN /\ \A h \in IncHosts(inc) : Cardinality(HostNodes(inc, h.id)) = 1
           /\ Len(last.nc) = Cardinality(IncHosts(inc)) + Cardinality(items)
                                 + Cardinality(values)
           /\ Cardinality(NodesOf(inc)) = Len(last.nc)

\* a rebuild that grouped an item by its padded, differently-cased host
\* text and met one indicator value on two hosts
C2_Witness ==
    /\ last.op = "auto_generate" /\ ~last.raised /\ last.incident = 1
    /\ hosts = {H1, H2, H3}
    /\ {r.id : r \in accounts} = {12}
    /\ {r.id : r \in network_indicators} = {41, 42}
    /\ Len(last.nc) = 4

\* C3: a rebuild that fails part-way leaves the incident's stored graph
\* either exactly as it was before the call or as the complete new graph.
C3_RebuildAtomic ==
    [][(Called("auto_generate") /\ last'.raised) =>
          \/ /\ {n \in nodes' : n.incident_id = last'.incident}
                   = {n \in nodes : n.incident_id = last'.incident}
             /\ {e \in edges' : e.incident_id = last'.incident}
                   = {e \in edges : e.incident_id = last'.incident}
          \/ /\ IncHosts(last'.incident) # {}
             /\ \A h \in IncHosts(last'.incident) :
                   Cardinality({n \in nodes' : /\ n.incident_id = last'.incident
                                               /\ n.compromised_host_id = h.id}) = 1]_vars

\* C4: process_event_for_graph never raises to its caller.
C4_NeverRaises == last.op = "process_event" => ~last.raised

\* C5: creating a timeline event with valid input always succeeds whatever
\* the graph update does: the event is persisted and the response is 201.
C5_CreateAlwaysSucceeds ==
    (last.op = "create_timeline_event" /\ last.status # 400) =>
        (last.event \in events /\ last.status = 201)

AllDone(op) == \A p \in Procs : pc[p] = "done" /\ loc[p].op = op /\ ~loc[p].raised

LateralBetween(inc, s, t) ==
    {e \in EdgesOf(inc) : /\ e.edge_type = "lateral_movement"
                          /\ HostOfNode(e.source_node_id) = s
                          /\ HostOfNode(e.target_node_id) = t}

\* C6: two concurrent rebuilds of one incident are serialized: the final
\* graph has exactly one node per host and no duplicate edges.
C6_RebuildsSerialized ==
    (AllDone("auto_generate") /\ \A p \in Procs : loc[p].incident = 1) =>
        /\ \A h \in IncHosts(1) : Cardinality(HostNodes(1, h.id)) = 1
        /\ \A e1, e2 \in EdgesOf(1) :
              (/\ e1.incident_id = e2.incident_id
               /\ e1.source_node_id = e2.source_node_id
               /\ e1.target_node_id = e2.target_node_id
               /\ e1.edge_type = e2.edge_type) => e1 = e2

\* C7: two concurrent process_event_for_graph calls of one incident leave
\* at most one node per host and at most one lateral_movement edge per
\* ordered pair of hosts.
C7_AtomicGetOrCreate ==
    AllDone("process_event") =>
        /\ \A h \in hosts : Cardinality(HostNodes(1, h.id)) <= 1
        /\ \A s, t \in HostIds(hosts) : Cardinality(LateralBetween(1, s, t)) <= 1

\* C8: after auto_generate a lateral_movement edge X->Y exists exactly when,
\* in the host-bearing events by ascending timestamp, an event on Y
\* immediately follows an event on a different host X; one edge per such
\* ordered pair, however often the transition repeats.
C8_LateralEdges ==
    (last.op = "auto_generate" /\ ~last.raised) =>
        LET inc == last.incident
            evs == last.evs
            steps == {i \in 1..(Len(evs) - 1) :
                         /\ evs[i].host_id # evs[i + 1].host_id
                         /\ HostNodes(inc, evs[i].host_id) # {}
                         /\ HostNodes(inc, evs[i + 1].host_id) # {}}
            trans == {<<evs[i].host_id, evs[i + 1].host_id>> : i \in steps}
            lat == {e \in EdgesOf(inc) : e.edge_type = "lateral_movement"}
        IN /\ evs \in EventOrders(inc)
           /\ {<<HostOfNode(e.source_node_id), HostOfNode(e.target_node_id)>> : e \in lat}
                 = trans
           /\ Cardinality(lat) = Cardinality(trans)

\* a rebuild over the events A, B, A, B: the transition A->B repeats
C8_Witness ==
    /\ last.op = "auto_generate" /\ ~last.raised /\ last.incident = 1
    /\ events = EventsABAB
    /\ Cardinality(LateralBetween(1, 1, 2)) = 1
    /\ Cardinality(LateralBetween(1, 2, 1)) = 1

\* C9: two process_event_for_graph calls in a row that describe the same
\* lateral movement leave at most one lateral_movement edge from the source
\* host's node to the target host's node.
C9_SameMovementOnce ==
    last.repeat =>
        Cardinality(LateralBetween(last.incident, last.src_host, last.event.host_id)) <= 1

\* the second of two such calls has returned and the edge is stored
C9_Witness ==
    /\ last.repeat
    /\ last.ec = << >>
    /\ last.src_host # last.event.host_id
    /\ Cardinality(LateralBetween(last.incident, last.src_host, last.event.host_id)) = 1

\* C10: process_event_for_graph on an event without host_id changes no
\* node, no edge and no flag, whatever its tactic and source are.
C10_NoHostNoOp ==
    [][(Called("process_event") /\ last'.event.host_id = NoId) =>
          (nodes' = nodes /\ edges' = edges)]_vars

\* such a call was made on a graph that holds nodes without a host
C10_Witness ==
    /\ last.op = "process_event" /\ last.event.host_id = NoId
    /\ last.event.mitre_tactic = "impact"
    /\ \E n \in nodes : n.compromised_host_id = NoId

\* C11: process_event_for_graph on an initial-access event whose host exists
\* ends with exactly one node for that host in the incident, and that node
\* has is_initial_access set; the node is created if the host had none and
\* is the node the host already had otherwise.
C11_InitialAccessFlag ==
    [][(/\ Called("process_event") /\ ~last'.raised
        /\ last'.event.mitre_tactic = "initial-access"
        /\ last'.event.host_id \in HostIds(hosts)) =>
          LET inc == last'.incident
              hid == last'.event.host_id
              before == HostNodes(inc, hid)
              after == {n \in nodes' : n.incident_id = inc /\ n.compromised_host_id = hid}
          IN /\ Cardinality(after) = 1
             /\ \A n \in after : n.is_initial_access
             /\ before = {} => Len(last'.nc) = 1 /\ {n.id : n \in after} = {last'.nc[1]}
             /\ before # {} => /\ last'.nc = << >>
                               /\ {n.id : n \in after} = {n.id : n \in before}]_vars

\* after a rebuild that flagged another host, the call reused the node of
\* its host and set the flag on it
C11_Witness ==
    /\ last.op = "process_event" /\ ~last.raised
    /\ last.event.mitre_tactic = "initial-access"
    /\ last.prev.op = "auto_generate" /\ ~last.prev.raised
    /\ last.nc = << >>
    /\ \E n \in HostNodes(last.incident, last.event.host_id) :
          n.is_initial_access /\ n.position_x # 0

NodeTypes == {n.node_type : n \in nodes}
EdgeTypes == {e.edge_type : e \in edges}

\* C12: two auto_generate calls in a row on unchanged source data create
\* the same number of nodes and of edges, and the same number per node type
\* and per edge type.
C12_SameCounts ==
    [][(/\ Called("auto_generate") /\ ~last'.raised
        /\ last.op = "auto_generate" /\ ~last.raised
        /\ last'.incident = last.incident) =>
          LET inc == last.incident
          IN /\ Len(last'.nc) = Len(last.nc)
             /\ Len(last'.ec) = Len(last.ec)
             /\ \A t \in NodeTypes :
                   Cardinality({n \in nodes' : n.incident_id = inc /\ n.node_type = t})
                     = Cardinality({n \in nodes : n.incident_id = inc /\ n.node_type = t})
             /\ \A t \in EdgeTypes :
                   Cardinality({e \in edges' : e.incident_id = inc /\ e.edge_type = t})
                     = Cardinality({e \in edges : e.incident_id = inc /\ e.edge_type = t})]_vars

\* the host of its incident a row names, by foreign key or by text
HostNamed(r) ==
    IF r.host_id # NoId THEN r.host_id
    ELSE (CHOOSE h \in IncHosts(r.incident_id) :
             \/ Norm(r.host_text) = StrLower(h.hostname)
             \/ Truthy(h.ip_address) /\ Norm(r.host_text) = StrLower(h.ip_address)).id

IpNodes(inc) == {n \in NodesOf(inc) : n.node_type = "ip_address"}

\* C13: in auto_generate a network indicator whose host cannot be resolved
\* to a host node of the incident produces no node and no edge and is not
\* an error: the ip_address nodes and the edges that reach them are exactly
\* those of the indicators that do resolve, and every ip_address node is
\* linked from a host node.
C13_UnresolvedIndicatorSkipped ==
    last.op = "auto_generate" =>
        LET inc == last.incident
            resolved == {x \in network_indicators : x.incident_id = inc /\ NamesHost(x)}
            toIp == {e \in EdgesOf(inc) : \E n \in IpNodes(inc) : n.id = e.target_node_id}
        IN /\ ~last.raised
           /\ Cardinality(IpNodes(inc)) = Cardinality({x.dns_ip : x \in resolved})
           /\ Cardinality(toIp) = Cardinality({<<HostNamed(x), x.dns_ip>> : x \in resolved})
           /\ {HostOfNode(e.source_node_id) : e \in toIp} = {HostNamed(x) : x \in resolved}
           /\ \A n \in IpNodes(inc) : \E e \in toIp : e.target_node_id = n.id

\* a rebuild read one indicator that resolves and one, with another value,
\* whose host text matches no host: only the first got a node
C13_Witness ==
    /\ last.op = "auto_generate" /\ ~last.raised /\ last.incident = 1
    /\ {r.id : r \in network_indicators} = {41, 44}
    /\ Cardinality(IpNodes(1)) = 1
    /\ Cardinality(EdgesOf(1)) = 1

GraphNotifications ==
    {"graph_node_added", "graph_node_updated", "graph_node_deleted",
     "graph_edge_added", "graph_edge_updated", "graph_edge_deleted"}

\* the graph notifications the last request sent to the incident's room
GraphEmits ==
    SelectSeq(last.emits,
              LAMBDA m : m.name \in GraphNotifications /\ m.room = last.incident)

\* C14: after auto_generate and after process_event_for_graph the handler
\* publishes, to the room of the incident, one notification for every graph
\* node and edge the call created.
C14_GraphChangesPublished ==
    (last.op \in {"auto_generate", "create_timeline_event"} /\ ~last.raised) =>
        Len(GraphEmits) = Len(last.nc) + Len(last.ec)

\* a graph up to the primary keys of its rows
Shape(ns, es) ==
    LET hostOf(id) == (CHOOSE n \in ns : n.id = id).compromised_host_id
    IN [nodes |-> {[n EXCEPT !.id = 0] : n \in ns},
        edges |-> {<<hostOf(e.source_node_id), hostOf(e.target_node_id),
                     e.edge_type, e.mitre_tactic, e.timestamp>> : e \in es}]

\* the graph process_event_for_graph(event) builds when it runs alone
AloneShape(event) ==
    LET B == ProcessEventBody(Session({}, {}, nextId), event)
    IN Shape(B.G.nodes, B.G.edges)

\* C15: two process_event_for_graph calls for different incidents,
\* interleaved in any way, leave each incident with the graph its own call
\* builds when it runs alone.
C15_IncidentsIndependent ==
    (AllDone("process_event") /\ loc[1].incident # loc[2].incident) =>
        \A p \in Procs :
            Shape(NodesOf(loc[p].incident), EdgesOf(loc[p].incident))
                = AloneShape(loc[p].event)

\* both calls committed a node, one for each incident
C15_Witness ==
    /\ AllDone("process_event") /\ loc[1].incident # loc[2].incident
    /\ NodesOf(1) # {} /\ NodesOf(2) # {}
    /\ \E p \in Procs : loc[p].event.mitre_tactic = "lateral-movement"
    /\ \E e \in edges : e.edge_type = "lateral_movement"

UpperChar(c) ==
    IF \E i \in 1..26 : LowerChars[i] = c
    THEN UpperChars[CHOOSE i \in 1..26 : LowerChars[i] = c]
    ELSE c

\* the same text in other letter case and with other surrounding whitespace
TextVariants(t) ==
    { t, StrStrip(t), StrLower(t), [i \in 1..Len(t) |-> UpperChar(t[i])],
      <<" ">> \o t, t \o <<"\t", " ">>, <<"\n">> \o t \o <<" ">> }

\* C16: _resolve_host_id returns the foreign key whenever it is present,
\* also when it is in neither index; otherwise the hostname-index entry of
\* the stripped, lower-cased text if there is one, else the ip-index entry
\* of the same key, else None.  The hostname index wins over the ip index
\* and the result is the same for every case and padding of the text.
C16_ResolveHostId ==
    last.op = "resolve_host_id" =>
        LET h2i == HostnameToId(last.hs)
            ip2i == IpToHostId(last.hs)
            text == last.text_hostname
            key == Norm(text)
            present == text # NoneText
        IN /\ last.obj_host_id # NoId => last.ret = last.obj_host_id
           /\ last.obj_host_id = NoId =>
                 /\ (present /\ key \in DOMAIN h2i) => last.ret = h2i[key]
                 /\ (present /\ key \notin DOMAIN h2i /\ key \in DOMAIN ip2i) =>
                        last.ret = ip2i[key]
                 /\ (~present \/ (key \notin DOMAIN h2i /\ key \notin DOMAIN ip2i)) =>
                        last.ret = NoId
           /\ present =>
                 \A v \in TextVariants(text) :
                     ResolveHostId(last.obj_host_id, v, h2i, ip2i) = last.ret

\* a padded address that is a hostname of one host and the address of
\* another was resolved, without a foreign key, to the host it names
C16_Witness ==
    /\ last.op = "resolve_host_id"
    /\ last.obj_host_id = NoId
    /\ last.text_hostname = T_IP2_pad
    /\ T_ip2 \in DOMAIN HostnameToId(last.hs)
    /\ T_ip2 \in DOMAIN IpToHostId(last.hs)
    /\ last.ret = H5.id

\* C17: after any sequence of auto_generate and process_event_for_graph
\* calls, each run to completion before the next starts, no host has more
\* than one node in an incident.
C17_OneNodePerHost ==
    \A inc \in Incidents : \A h \in hosts : Cardinality(HostNodes(inc, h.id)) <= 1

\* process_event_for_graph met the node an earlier auto_generate had made
\* for the event's host and created none
C17_Witness ==
    /\ last.op = "process_event" /\ ~last.raised
    /\ last.prev.op = "auto_generate" /\ ~last.prev.raised
    /\ last.prev.incident = last.incident
    /\ last.event.mitre_tactic = "impact"
    /\ last.nc = << >>
    /\ Cardinality(HostNodes(last.incident, last.event.host_id)) = 1

\* C18: no lateral_movement edge goes from a node to itself, whether
\* process_event_for_graph or auto_generate made it.
C18_NoSelfLateralEdge ==
    \A e \in edges :
        e.edge_type = "lateral_movement" => e.source_node_id # e.target_node_id

Range(s) == {s[i] : i \in 1..Len(s)}

\* C20: after a successful auto_generate the nodes and edges stored for the
\* incident are exactly the ones the call returned, and no id of the old
\* graph (from an earlier rebuild, from process_event_for_graph or made by
\* hand) survives; for an incident without hosts the call returns two empty
\* lists and the stored graph of the incident is empty.
C20_RebuildReplaces ==
    [][(Called("auto_generate") /\ ~last'.raised) =>
          LET inc == last'.incident
              newN == {n.id : n \in {m \in nodes' : m.incident_id = inc}}
              newE == {e.id : e \in {d \in edges' : d.incident_id = inc}}
          IN /\ newN = Range(last'.nc) /\ Cardinality(newN) = Len(last'.nc)
             /\ newE = Range(last'.ec) /\ Cardinality(newE) = Len(last'.ec)
             /\ newN \cap {n.id : n \in NodesOf(inc)} = {}
             /\ newE \cap {e.id : e \in EdgesOf(inc)} = {}
             /\ IncHosts(inc) = {} =>
                   /\ last'.nc = << >> /\ last'.ec = << >>
                   /\ newN = {} /\ newE = {}]_vars

\* a rebuild replaced a graph that held a node made by hand
C20_Witness ==
    /\ last.op = "auto_generate" /\ ~last.raised
    /\ last.prev.op = "create_graph_node" /\ last.prev.incident = last.incident
    /\ \E n \in NodesOf(last.incident) : n.id > 100
    /\ \A n \in NodesOf(last.incident) : n.id # 100

\* a rebuild of an incident without hosts emptied a graph made by hand
C20_WitnessNoHosts ==
    /\ last.op = "auto_generate" /\ ~last.raised
    /\ last.prev.op = "create_graph_node" /\ last.prev.incident = last.incident
    /\ IncHosts(last.incident) = {}
    /\ nextId = 101 /\ NodesOf(last.incident) = {}

\* no host of the incident comes before h in first_seen ascending order
\* with the hosts that have no first_seen last
Earliest(h) ==
    \A g \in IncHosts(h.incident_id) :
        \/ g.first_seen = NoTime
        \/ (h.first_seen # NoTime /\ h.first_seen <= g.first_seen)

\* C21: after auto_generate on an incident with at least one host exactly
\* one node of the incident has is_initial_access set: the host node of the
\* first host by first_seen ascending, hosts without first_seen after the
\* others.  No sub-node and no network-IOC node is flagged.
C21_FirstHostFlagged ==
    (last.op = "auto_generate" /\ ~last.raised /\ IncHosts(last.incident) # {}) =>
        LET flagged == {n \in NodesOf(last.incident) : n.is_initial_access}
        IN /\ Cardinality(flagged) = 1
           /\ \A n \in flagged :
                 /\ n.compromised_host_id # NoId
                 /\ n.node_type \in {"workstation", "server", "domain_controller"}
                 /\ \E h \in IncHosts(last.incident) :
                       h.id = n.compromised_host_id /\ Earliest(h)

\* a rebuild over a host without first_seen, a host with one, and sub-nodes
\* and an indicator node: the host that has a first_seen is the flagged one
C21_Witness ==
    /\ last.op = "auto_generate" /\ ~last.raised /\ last.incident = 1
    /\ hosts = {H1, H2, H3}
    /\ \E n \in NodesOf(1) : n.node_type = "user"
    /\ \E n \in NodesOf(1) : n.node_type = "ip_address"
    /\ \E n \in HostNodes(1, 2) : n.is_initial_access
    /\ \E n \in HostNodes(1, 1) : ~n.is_initial_access

\* C22: process_event_for_graph changes node flags only on the node of the
\* event's own host and only from false to true: is_objective exactly when
\* the tactic is impact, is_initial_access exactly when it is
\* initial-access; for any other tactic no flag of any node changes, and a
\* node the call creates for another host carries no flag.
C22_FlagsOnlyRaised ==
    [][Called("process_event") =>
          LET ev == last'.event
              own(n) == n.incident_id = ev.incident_id /\ n.compromised_host_id = ev.host_id
              done == ~last'.raised /\ ev.host_id # NoId
              was(n, flag) == \E m \in nodes : m.id = n.id /\ m[flag]
          IN /\ \A m \in nodes : \E n \in nodes' : n.id = m.id
             /\ \A n \in nodes' :
                   /\ n.is_objective =
                        (was(n, "is_objective")
                           \/ (done /\ own(n) /\ ev.mitre_tactic = "impact"))
                   /\ n.is_initial_access =
                        (was(n, "is_initial_access")
                           \/ (done /\ own(n) /\ ev.mitre_tactic = "initial-access"))]_vars

\* after a rebuild flagged the earliest host, an initial-access event on
\* another host left both host nodes flagged
C22_Witness ==
    /\ last.op = "process_event" /\ ~last.raised
    /\ last.event.mitre_tactic = "initial-access" /\ last.event.host_id = 1
    /\ last.prev.op = "auto_generate" /\ ~last.prev.raised /\ last.prev.incident = 1
    /\ \E n \in HostNodes(1, 1) : n.is_initial_access
    /\ \E n \in HostNodes(1, 2) : n.is_initial_access

EdgesSound(ns, es) ==
    \A e \in es :
        /\ \E n \in ns : n.id = e.source_node_id /\ n.incident_id = e.incident_id
        /\ \E n \in ns : n.id = e.target_node_id /\ n.incident_id = e.incident_id

\* C23: in every stored state reached by interleaved auto_generate and
\* process_event_for_graph requests, and in the state between the edge
\* delete and the node delete of a rebuild of any incident, every edge's
\* source_node_id and target_node_id name existing nodes of the edge's own
\* incident.
C23_EdgesReferToNodes ==
    /\ EdgesSound(nodes, edges)
    /\ \A inc \in Incidents : EdgesSound(nodes, {e \in edges : e.incident_id # inc})

\* a rebuild of incident 1 has committed its delete while the other
\* request's edges are stored
C23_Witness ==
    \E p, q \in Procs :
        /\ pc[p] = "cleared" /\ loc[p].incident = 1
        /\ pc[q] = "done" /\ ~loc[q].raised
        /\ edges # {}

C25_OneIocNodePerValue ==
    (last.op = "auto_generate" /\ ~last.raised) =>
        LET inc == last.incident
            resolved == {x \in network_indicators : x.incident_id = inc /\ NamesHost(x)}
            values == {x.dns_ip : x \in resolved}
            hostsOf(v) == {HostNamed(x) : x \in {y \in resolved : y.dns_ip = v}}
            into(id) == {e \in EdgesOf(inc) : e.target_node_id = id}
            ids == {n.id : n \in IpNodes(inc)}
        IN /\ \E f \in [values -> ids] :
                 /\ \A v, w \in values : f[v] = f[w] => v = w
                 /\ \A id \in ids : \E v \in values : f[v] = id
                 /\ \A v \in values :
                       {HostOfNode(e.source_node_id) : e \in into(f[v])} = hostsOf(v)
           /\ \A id \in ids :
                 /\ \A e \in into(id) :
                       /\ e.edge_type = "associated_with"
                       /\ HostOfNode(e.source_node_id) # NoId
                 /\ \A e1, e2 \in into(id) :
                       e1.source_node_id = e2.source_node_id => e1 = e2

\* three indicators with one value, two of them naming the same host: one
\* ip_address node, linked once from each of the two hosts
C25_Witness ==
    /\ last.op = "auto_generate" /\ ~last.raised /\ last.incident = 1
    /\ {r.id : r \in network_indicators} = {41, 42, 43}
    /\ Cardinality(IpNodes(1)) = 1
    /\ \A n \in IpNodes(1) :
          {HostOfNode(e.source_node_id) : e \in {d \in EdgesOf(1) : d.target_node_id = n.id}}
              = {1, 2}
    /\ Cardinality({e \in EdgesOf(1) : e.edge_type = "associated_with"}) = 2

SubNodeTypes == {"user", "malware", "host_indicator"}

ItemsOfType(t) ==
    IF t = "user" THEN accounts ELSE IF t = "malware" THEN malware ELSE host_indicators

\* C26: in auto_generate every account, malware item and host indicator
\* that resolves to a host of the incident yields exactly one sub-node
\* linked by exactly one associated_with edge from that host's node, and an
\* item that resolves to no host of the incident yields nothing: per host
\* and type the sub-nodes under the host's node are as many as the items
\* resolving to it (for accounts, with exactly their ids), every sub-node
\* has exactly one incoming edge, and every non-host node has an incoming
\* associated_with edge from a host node.
C26_SubNodePerResolvedItem ==
    (last.op = "auto_generate" /\ ~last.raised) =>
        LET inc == last.incident
            subs == {n \in NodesOf(inc) : n.node_type \in SubNodeTypes}
            into(n) == {e \in EdgesOf(inc) : e.target_node_id = n.id}
            under(h, t) == {n \in subs : /\ n.node_type = t
                                         /\ \E e \in into(n) :
                                               HostOfNode(e.source_node_id) = h.id}
            items(h, t) == {r \in ItemsOfType(t) : /\ r.incident_id = inc
                                                   /\ NamesHost(r)
                                                   /\ HostNamed(r) = h.id}
        IN /\ \A h \in IncHosts(inc), t \in SubNodeTypes :
                 Cardinality(under(h, t)) = Cardinality(items(h, t))
           /\ \A h \in IncHosts(inc) :
                 {n.compromised_account_id : n \in under(h, "user")}
                     = {r.id : r \in items(h, "user")}
           /\ \A n \in subs :
                 /\ Cardinality(into(n)) = 1
                 /\ \A e \in into(n) :
                       /\ e.edge_type = "associated_with"
                       /\ \E m \in NodesOf(inc) :
                             /\ m.id = e.source_node_id
                             /\ m.compromised_host_id \in {h.id : h \in IncHosts(inc)}
           /\ \A n \in NodesOf(inc) :
                 n.compromised_host_id = NoId =>
                     \E e \in into(n) : /\ e.edge_type = "associated_with"
                                        /\ HostOfNode(e.source_node_id) # NoId

\* an account of host 1, an account whose host text names no host and a
\* malware item of host 2: one user node under host 1, one malware node
\* under host 2 and nothing for the second account
C26_Witness ==
    /\ last.op = "auto_generate" /\ ~last.raised /\ last.incident = 1
    /\ {r.id : r \in accounts} = {11, 13} /\ {r.id : r \in malware} = {21}
    /\ \E n \in NodesOf(1), e \in EdgesOf(1) :
          /\ n.node_type = "user" /\ n.compromised_account_id = 11
          /\ e.target_node_id = n.id /\ HostOfNode(e.source_node_id) = 1
    /\ \E n \in NodesOf(1), e \in EdgesOf(1) :
          /\ n.node_type = "malware"
          /\ e.target_node_id = n.id /\ HostOfNode(e.source_node_id) = 2
    /\ Cardinality({n \in NodesOf(1) : n.compromised_host_id = NoId}) = 2

\* C27: auto_generate(I) and process_event_for_graph(e) write only graph
\* nodes and edges of their own incident: hosts, accounts, malware, host
\* indicators, network indicators and timeline events are unchanged, and so
\* are the nodes and edges of every other incident.
C27_WritesOwnIncidentOnly ==
    [][(Called("auto_generate") \/ Called("process_event")) =>
          /\ UNCHANGED <<sourceVars, events>>
          /\ {n \in nodes' : n.incident_id # last'.incident}
                = {n \in nodes : n.incident_id # last'.incident}
          /\ {e \in edges' : e.incident_id # last'.incident}
                = {e \in edges : e.incident_id # last'.incident}
          /\ last'.op = "process_event" => last'.incident = last'.event.incident_id]_vars

\* incident 1 was rebuilt while incident 2 held a graph, and both have one
\* afterwards
C27_Witness ==
    /\ last.op = "auto_generate" /\ ~last.raised /\ last.incident = 1
    /\ last.prev.incident = 2 /\ ~last.prev.raised
    /\ NodesOf(1) # {} /\ NodesOf(2) # {}

C29_RebuildFlagsNotFromEvents ==
    (last.op = "auto_generate" /\ ~last.raised) =>
        \A n \in NodesOf(last.incident) :
            /\ ~n.is_objective
            /\ n.is_initial_access =>
                  /\ Len(last.hs) > 0
                  /\ n.compromised_host_id = last.hs[1].id

\* an impact event flagged the node of host 2 and the incident holds an
\* impact event of that host and an initial-access event of host 1, which
\* is not the first host; the rebuild that followed left the node of host
\* 2 without is_objective and the node of host 1 without is_initial_access
C29_Witness ==
    /\ last.op = "auto_generate" /\ ~last.raised /\ last.incident = 1
    /\ last.prev.op = "process_event" /\ ~last.prev.raised
    /\ last.prev.event.mitre_tactic = "impact" /\ last.prev.event.host_id = 2
    /\ last.prev.event.incident_id = 1
    /\ \E ev \in events : ev.incident_id = 1 /\ ev.host_id = 2 /\ ev.mitre_tactic = "impact"
    /\ \E ev \in events :
          ev.incident_id = 1 /\ ev.host_id = 1 /\ ev.mitre_tactic = "initial-access"
    /\ HostNodes(1, 2) # {} /\ HostNodes(1, 1) # {}
    /\ \A n \in HostNodes(1, 2) : ~n.is_objective
    /\ \A n \in HostNodes(1, 1) : ~n.is_initial_access

\* C30: when a process_event_for_graph call and an auto_generate of the
\* same incident have run concurrently and both returned, the stored graph
\* of the incident has at most one node per host and every edge of it
\* names stored nodes.
C30_EventDuringRebuild ==
    \A p, q \in Procs :
        (/\ pc[p] = "done" /\ pc[q] = "done"
         /\ loc[p].op = "auto_generate" /\ loc[q].op = "process_event"
         /\ loc[p].incident = loc[q].incident
         /\ ~loc[p].raised /\ ~loc[q].raised) =>
            LET inc == loc[p].incident
            IN /\ \A h \in IncHosts(inc) : Cardinality(HostNodes(inc, h.id)) <= 1
               /\ EdgesSound(nodes, EdgesOf(inc))
====
